---- MODULE Spec2Model ----
(***************************************************************************)
(* A model of ttd, a command-line task tracker (src/src/main.rs).          *)
(*                                                                         *)
(* Every invocation of the program is one run: the store is loaded from    *)
(* the data file, one command handler runs on it, and the store is written *)
(* back unless the handler returned early, failed or panicked.  The state  *)
(* of the model is the content of the data file and a record of what the   *)
(* run that has just ended did; the configuration file, the clock and the  *)
(* arguments are inputs of each run.                                       *)
(*                                                                         *)
(* Strings the program inspects character by character (descriptions,      *)
(* queries, time tokens) are sequences of one-character strings; session   *)
(* names, which the program only compares, are TLA+ strings.  Similarity   *)
(* scores are exact rationals <<numerator, denominator>>.                  *)
(***************************************************************************)
EXTENDS Integers, Sequences, FiniteSets, TLC

----------------------------------------------------------------------------
(* Option<T> : None, or Some(v)                                            *)

None == [some |-> FALSE, v |-> 0]

Some(x) == [some |-> TRUE, v |-> x]

NoName == [some |-> FALSE, v |-> ""]

Min2(a, b) == IF a < b THEN a ELSE b

Max2(a, b) == IF a > b THEN a ELSE b

----------------------------------------------------------------------------
(* Characters and strings                                                  *)

Digits == {"0", "1", "2", "3", "4", "5", "6", "7", "8", "9"}

is_ascii_digit(c) == c \in Digits

DigitVal(c) ==
    CASE c = "0" -> 0 [] c = "1" -> 1 [] c = "2" -> 2 [] c = "3" -> 3
      [] c = "4" -> 4 [] c = "5" -> 5 [] c = "6" -> 6 [] c = "7" -> 7
      [] c = "8" -> 8 [] c = "9" -> 9

(* char::to_lowercase on the letters the model uses; every other character *)
(* of the model (digits, '-', lowercase letters) is its own lowercase.     *)
LowerChar(c) ==
    CASE c = "A" -> "a" [] c = "B" -> "b" [] c = "C" -> "c" [] c = "D" -> "d"
      [] c = "E" -> "e" [] c = "N" -> "n" [] c = "S" -> "s" [] c = "X" -> "x"
      [] c = "Y" -> "y" [] OTHER -> c

to_lowercase(s) == [i \in 1..Len(s) |-> LowerChar(s[i])]

AllDigits(s) == \A i \in 1..Len(s) : is_ascii_digit(s[i])

(* s[1..] of a string that starts with '-' *)
Rest(s) == SubSeq(s, 2, Len(s))

starts_with(s, c) == Len(s) >= 1 /\ s[1] = c

RECURSIVE DecValue(_)
DecValue(s) ==
    IF Len(s) = 0 THEN 0
    ELSE 10 * DecValue(SubSeq(s, 1, Len(s) - 1)) + DigitVal(s[Len(s)])

(* str::parse::<usize>: an optional '+', then at least one digit and       *)
(* nothing else; a '-' is an error.  (A value above usize::MAX is an error *)
(* too; it takes 20 digits, and the tokens of the model are far shorter.)  *)
ParseUsize(s) ==
    LET body == IF starts_with(s, "+") THEN Rest(s) ELSE s
    IN  IF Len(body) = 0 \/ ~AllDigits(body) THEN None
        ELSE Some(DecValue(body))

----------------------------------------------------------------------------
(* strsim::jaro_winkler, on exact rationals                                *)

RECURSIVE JaroScan(_, _, _, _, _)
(* The matching pass of Jaro: for each position i of a, in order, the      *)
(* first unflagged position j of b inside the search window that holds the *)
(* same character is flagged.  Returns <<flagged of a, flagged of b>>.     *)
JaroScan(a, b, i, fa, fb) ==
    IF i > Len(a) THEN <<fa, fb>>
    ELSE
        LET range == Max2(Max2(Len(a), Len(b)) \div 2 - 1, 0)
            lo    == Max2(i - range, 1)
            hi    == Min2(Len(b), i + range)
            cand  == {j \in lo..hi : b[j] = a[i] /\ j \notin fb}
        IN  IF cand = {} THEN JaroScan(a, b, i + 1, fa, fb)
            ELSE LET j == CHOOSE x \in cand : \A y \in cand : x <= y
                 IN  JaroScan(a, b, i + 1, fa \cup {i}, fb \cup {j})

RECURSIVE Flagged(_, _, _)
(* the characters of s at the flagged positions, in order *)
Flagged(s, f, i) ==
    IF i > Len(s) THEN <<>>
    ELSE IF i \in f THEN <<s[i]>> \o Flagged(s, f, i + 1)
    ELSE Flagged(s, f, i + 1)

(* the similarity of strings of lengths la and lb whose matched characters *)
(* are ma and mb: (m/la + m/lb + (m - t)/m) / 3, t half the number of      *)
(* matched characters that differ in order                                 *)
JaroSimilarity(la, lb, ma, mb) ==
    LET m == Len(ma)
        t == Cardinality({k \in 1..m : ma[k] # mb[k]}) \div 2
    IN  IF m = 0 THEN <<0, 1>>
        ELSE <<m * m * lb + m * m * la + (m - t) * la * lb, 3 * la * lb * m>>

(* Jaro similarity as <<n, d>>, n/d in [0, 1] *)
jaro(a, b) ==
    IF Len(a) = 0 /\ Len(b) = 0 THEN <<1, 1>>
    ELSE IF Len(a) = 0 \/ Len(b) = 0 THEN <<0, 1>>
    ELSE JaroSimilarity(Len(a), Len(b),
                        Flagged(a, JaroScan(a, b, 1, {}, {})[1], 1),
                        Flagged(b, JaroScan(a, b, 1, {}, {})[2], 1))

RECURSIVE CommonPrefix(_, _, _)
CommonPrefix(a, b, i) ==
    IF i > Len(a) \/ i > Len(b) \/ i > 4 THEN 0
    ELSE IF a[i] # b[i] THEN 0
    ELSE 1 + CommonPrefix(a, b, i + 1)

(* sim + 0.1 * prefix * (1 - sim) when sim > 0.7, else sim *)
Winkler(sim, p) ==
    IF 10 * sim[1] > 7 * sim[2]
    THEN <<10 * sim[1] + p * (sim[2] - sim[1]), 10 * sim[2]>>
    ELSE sim

jaro_winkler(a, b) == Winkler(jaro(a, b), CommonPrefix(a, b, 1))

(* comparisons of scores; a threshold th stands for th / 100 *)
ScoreGt(x, y) == x[1] * y[2] > y[1] * x[2]

ScoreGe(x, y) == x[1] * y[2] >= y[1] * x[2]

Pct(th) == <<th, 100>>

ZeroScore == <<0, 1>>

----------------------------------------------------------------------------
(* Instants, tasks and their order                                         *)

(* A DateTime<Utc> is a day number (days since 1970-01-01) and a second of *)
(* that day.                                                               *)
Instant(d, s) == [days |-> d, secs |-> s]

InstantLe(x, y) == x.days < y.days \/ (x.days = y.days /\ x.secs <= y.secs)

NoTime == [some |-> FALSE, v |-> Instant(0, 0)]

Task(d, t, dn) == [description |-> d, time |-> t, done |-> dn]

(* the comparator with the two mixed arms exchanged: tasks without a time  *)
(* sort first                                                              *)
TaskLe_NoneFirst(a, b) ==
    CASE a.time.some /\ b.time.some   -> InstantLe(a.time.v, b.time.v)
      [] a.time.some /\ ~b.time.some  -> FALSE
      [] ~a.time.some /\ b.time.some  -> TRUE
      [] OTHER                        -> TRUE

(* the comparator of sort_tasks: TRUE when a must not come after b         *)
(* (Ordering::Less or Ordering::Equal)                                     *)
TaskLe(a, b) ==
    CASE a.time.some /\ b.time.some   -> InstantLe(a.time.v, b.time.v)
      [] a.time.some /\ ~b.time.some  -> TRUE
      [] ~a.time.some /\ b.time.some  -> FALSE
      [] OTHER                        -> TRUE

RECURSIVE InsertSorted_BeforeEqual(_, _)
(* x goes before the elements it compares equal to: not stable *)
InsertSorted_BeforeEqual(sorted, x) ==
    IF sorted = <<>> THEN <<x>>
    ELSE IF ~TaskLe(x, sorted[Len(sorted)]) THEN Append(sorted, x)
    ELSE Append(InsertSorted_BeforeEqual(SubSeq(sorted, 1, Len(sorted) - 1), x),
                sorted[Len(sorted)])

RECURSIVE InsertSorted(_, _)
(* x goes after every element that must not come after it: stable *)
InsertSorted(sorted, x) ==
    IF sorted = <<>> THEN <<x>>
    ELSE IF TaskLe(sorted[Len(sorted)], x) THEN Append(sorted, x)
    ELSE Append(InsertSorted(SubSeq(sorted, 1, Len(sorted) - 1), x),
                sorted[Len(sorted)])

RECURSIVE SortPrefix(_, _)
SortPrefix(tasks, n) ==
    IF n = 0 THEN <<>> ELSE InsertSorted(SortPrefix(tasks, n - 1), tasks[n])

(* Vec::sort_by is a stable sort: the result is the one stable ordering    *)
sort_tasks(tasks) == SortPrefix(tasks, Len(tasks))

----------------------------------------------------------------------------
(* The task matcher                                                        *)

(* the bounds test off by one: index <= tasks.len() *)
find_by_index_OffByOne(tasks, index) ==
    IF index <= Len(tasks) THEN Some(index) ELSE None

find_by_index(tasks, index) ==
    IF index < Len(tasks) THEN Some(index) ELSE None

(* A match result is [idx, info, is_index]: idx an Option of a 0-based     *)
(* index, info an Option of [desc, score].                                 *)
NoInfo == [some |-> FALSE, v |-> [desc |-> <<>>, score |-> ZeroScore]]

Info(d, sc) == [some |-> TRUE, v |-> [desc |-> d, score |-> sc]]

TaskScore(tasks, i, query_lower) ==
    jaro_winkler(to_lowercase(tasks[i].description), query_lower)

(* the equality test without lowercasing the description *)
ExactMatch_CaseSensitive(tasks, query_lower) ==
    LET hits == {i \in 1..Len(tasks) : tasks[i].description = query_lower}
    IN  IF hits = {} THEN None
        ELSE Some((CHOOSE i \in hits : \A j \in hits : i <= j) - 1)

(* strict branch: the first task equal to the query ignoring case *)
ExactMatch(tasks, query_lower) ==
    LET hits == {i \in 1..Len(tasks) :
                    to_lowercase(tasks[i].description) = query_lower}
    IN  IF hits = {} THEN None
        ELSE Some((CHOOSE i \in hits : \A j \in hits : i <= j) - 1)

(* the scores of the tasks against the query, by position *)
Scores(tasks, query_lower) ==
    [i \in 1..Len(tasks) |-> TaskScore(tasks, i, query_lower)]

(* the candidate (description, score) of the task at i (1-based) *)
Candidate(tasks, score, i) == Info(tasks[i].description, score[i])

(* strict branch: candidates are the tasks scoring strictly above the      *)
(* threshold; the stable descending sort puts first the earliest task      *)
(* among those with the highest score, and that one is reported.           *)
BestCandidate(tasks, score, threshold) ==
    LET cand == {i \in 1..Len(tasks) : ScoreGt(score[i], Pct(threshold))}
    IN  IF cand = {} THEN NoInfo
        ELSE Candidate(tasks, score,
                 CHOOSE i \in cand :
                    \A j \in cand :
                        \/ ScoreGt(score[i], score[j])
                        \/ (ScoreGe(score[i], score[j]) /\ i <= j))

StrictBest(tasks, query_lower, threshold) ==
    BestCandidate(tasks, Scores(tasks, query_lower), threshold)

RECURSIVE LooseScan_FirstHit(_, _, _, _, _, _)
(* the loop without the comparison to best_score: the first task at or     *)
(* above the threshold is kept                                             *)
LooseScan_FirstHit(tasks, query_lower, threshold, i, best_index, best_score) ==
    IF i > Len(tasks) THEN <<best_index, best_score>>
    ELSE LET score == TaskScore(tasks, i, query_lower)
         IN  IF best_index = 0 /\ ScoreGt(score, ZeroScore)
                /\ ScoreGe(score, Pct(threshold))
             THEN LooseScan_FirstHit(tasks, query_lower, threshold, i + 1, i, score)
             ELSE LooseScan_FirstHit(tasks, query_lower, threshold, i + 1,
                                     best_index, best_score)

RECURSIVE LooseScan(_, _, _, _, _, _)
(* non-strict branch: the loop over the tasks, carrying best_index         *)
(* (0 = none, else 1-based) and best_score                                 *)
LooseScan(tasks, query_lower, threshold, i, best_index, best_score) ==
    IF i > Len(tasks) THEN <<best_index, best_score>>
    ELSE LET score == TaskScore(tasks, i, query_lower)
         IN  IF ScoreGt(score, best_score) /\ ScoreGe(score, Pct(threshold))
             THEN LooseScan(tasks, query_lower, threshold, i + 1, i, score)
             ELSE LooseScan(tasks, query_lower, threshold, i + 1,
                            best_index, best_score)

(* non-strict branch: what the loop's best_index and best_score resolve to *)
LooseResult(tasks, r) ==
    IF r[1] # 0
    THEN <<Some(r[1] - 1), Info(tasks[r[1]].description, r[2])>>
    ELSE <<None, NoInfo>>

find_by_name(tasks, query, threshold, strict) ==
    LET query_lower == to_lowercase(query)
    IN  IF strict
        THEN IF ExactMatch(tasks, query_lower).some
             THEN <<ExactMatch(tasks, query_lower), NoInfo>>
             ELSE <<None, StrictBest(tasks, query_lower, threshold)>>
        ELSE LooseResult(tasks, LooseScan(tasks, query_lower, threshold, 1, 0,
                                          ZeroScore))

(* the dispatch test of find_task *)
IsIndexQuery(query) ==
    \/ AllDigits(query)
    \/ (starts_with(query, "-") /\ AllDigits(Rest(query)))

(* the result where find_task was not called *)
NoMatch == [idx |-> None, info |-> NoInfo, is_index |-> FALSE]

(* the triple find_task makes of the pair find_by_name returns *)
ByName(r) == [idx |-> r[1], info |-> r[2], is_index |-> FALSE]

find_task(tasks, query, threshold, strict) ==
    IF IsIndexQuery(query)
    THEN LET parsed == ParseUsize(query)
         IN  IF parsed.some
             THEN [idx |-> find_by_index(tasks, parsed.v), info |-> NoInfo,
                   is_index |-> TRUE]
             ELSE [idx |-> None, info |-> NoInfo, is_index |-> TRUE]
    ELSE ByName(find_by_name(tasks, query, threshold, strict))

----------------------------------------------------------------------------
(* Calendar arithmetic of chrono: the proleptic Gregorian calendar         *)

IsLeap(y) == (y % 4 = 0 /\ y % 100 # 0) \/ y % 400 = 0

DaysInMonth(y, m) ==
    CASE m \in {1, 3, 5, 7, 8, 10, 12} -> 31
      [] m \in {4, 6, 9, 11}           -> 30
      [] OTHER                         -> IF IsLeap(y) THEN 29 ELSE 28

(* day number (days since 1970-01-01) of a calendar date *)
DaysFromCivil(y, m, d) ==
    LET yy  == IF m <= 2 THEN y - 1 ELSE y
        era == yy \div 400
        yoe == yy - era * 400
        mp  == IF m > 2 THEN m - 3 ELSE m + 9
        doy == (153 * mp + 2) \div 5 + d - 1
        doe == yoe * 365 + yoe \div 4 - yoe \div 100 + doy
    IN  era * 146097 + doe - 719468

(* calendar date [year, month, day] of a day number *)
CivilFromDays(z) ==
    LET zz  == z + 719468
        era == zz \div 146097
        doe == zz - era * 146097
        yoe == (doe - doe \div 1460 + doe \div 36524 - doe \div 146096) \div 365
        doy == doe - (365 * yoe + yoe \div 4 - yoe \div 100)
        mp  == (5 * doy + 2) \div 153
        d   == doy - (153 * mp + 2) \div 5 + 1
        m   == IF mp < 10 THEN mp + 3 ELSE mp - 9
    IN  [year |-> IF m <= 2 THEN yoe + era * 400 + 1 ELSE yoe + era * 400,
         month |-> m, day |-> d]

(* Weekday::num_days_from_monday of a day number; 1970-01-01 is a Thursday *)
num_days_from_monday(z) == (z + 3) % 7

(* an instant plus a number of days and a number of seconds (either sign)  *)
AddTime(t, days, secs) ==
    LET total == t.secs + secs
    IN  Instant(t.days + days + total \div 86400, total % 86400)

AddHours(t, h) == AddTime(t, 0, h * 3600)

(* NaiveDate::from_ymd_opt(..).and_then(and_hms_opt(..)) *)
ValidDateTime(y, mo, d, h, mi, s) ==
    /\ mo \in 1..12
    /\ d \in 1..DaysInMonth(y, mo)
    /\ h \in 0..23 /\ mi \in 0..59 /\ s \in 0..59

----------------------------------------------------------------------------
(* The time parser                                                         *)

(* A parse result: ok with the instant v, or the error err *)
TimeOk(t) == [ok |-> TRUE, v |-> t, err |-> ""]

TimeErr(e) == [ok |-> FALSE, v |-> Instant(0, 0), err |-> e]

RECURSIVE ScanNum(_, _, _)
(* the inner loop of both scanners: <<num, i>> after the digits at i       *)
ScanNum(input, i, num) ==
    IF i <= Len(input) /\ is_ascii_digit(input[i])
    THEN ScanNum(input, i + 1, num * 10 + DigitVal(input[i]))
    ELSE <<num, i>>

RECURSIVE ScanLetters(_, _)
ScanLetters(input, i) ==
    IF i <= Len(input) /\ ~is_ascii_digit(input[i])
    THEN ScanLetters(input, i + 1)
    ELSE i

(* humantime's units of one letter, as <<days, seconds>>; a year is        *)
(* 365.25 days and a month 30.44 days there.  Longer unit names are not    *)
(* used by the tokens of the model and count as unknown.                   *)
HumanUnit(u) ==
    CASE u = <<"s">> -> <<0, 1>>
      [] u = <<"m">> -> <<0, 60>>
      [] u = <<"h">> -> <<0, 3600>>
      [] u = <<"d">> -> <<1, 0>>
      [] u = <<"w">> -> <<7, 0>>
      [] u = <<"M">> -> <<30, 38016>>
      [] u = <<"y">> -> <<365, 21600>>
      [] OTHER       -> <<0, 0>>

RECURSIVE parse_duration(_, _, _)
(* humantime::parse_duration: one or more <digits><unit>; anything else    *)
(* (empty input, a unit without a number, a number without a unit, an      *)
(* unknown unit) is an error.  Returns [ok, days, secs].                   *)
parse_duration(input, i, acc) ==
    IF i > Len(input)
    THEN [ok |-> i > 1, days |-> acc[1], secs |-> acc[2]]
    ELSE LET n == ScanNum(input, i, 0)
             j == ScanLetters(input, n[2])
             u == HumanUnit(SubSeq(input, n[2], j - 1))
         IN  IF n[2] = i \/ j = n[2] \/ u = <<0, 0>>
             THEN [ok |-> FALSE, days |-> 0, secs |-> 0]
             ELSE parse_duration(input, j,
                                 <<acc[1] + n[1] * u[1], acc[2] + n[1] * u[2]>>)

RECURSIVE RelativeScan(_, _, _)
(* the fallback scanner of parse_relative_time *)
RelativeScan(input, i, dt) ==
    IF i > Len(input) THEN dt
    ELSE LET n    == ScanNum(input, i, 0)
             num  == n[1]
             unit == input[n[2]]
         IN  IF n[2] > Len(input) THEN dt
             ELSE RelativeScan(input, n[2] + 1,
                    CASE unit = "y" -> AddTime(dt, num * 365, 0)
                      [] unit = "M" -> AddTime(dt, num * 30, 0)
                      [] unit = "d" -> AddTime(dt, num, 0)
                      [] unit = "h" -> AddTime(dt, 0, num * 3600)
                      [] unit = "m" -> AddTime(dt, 0, num * 60)
                      [] unit = "s" -> AddTime(dt, 0, num)
                      [] OTHER      -> dt)

(* now plus the duration humantime parsed, or what the fallback scanner    *)
(* makes of the input                                                      *)
AddDuration(input, now, dur) ==
    IF dur.ok THEN TimeOk(AddTime(now, dur.days, dur.secs))
    ELSE TimeOk(RelativeScan(input, 1, now))

parse_relative_time(input, now) ==
    AddDuration(input, now, parse_duration(input, 1, <<0, 0>>))

(* the fields parse_absolute_time collects, each an Option *)
NoFields ==
    [year |-> None, month |-> None, day |-> None, hour |-> None,
     minute |-> None, second |-> None, weekday |-> None, err |-> ""]

RECURSIVE AbsoluteScan(_, _, _)
(* the scanning loop of parse_absolute_time; err is set by the first field *)
(* out of its range                                                        *)
AbsoluteScan(input, i, f) ==
    IF i > Len(input) THEN f
    ELSE LET n    == ScanNum(input, i, 0)
             num  == n[1]
             unit == input[n[2]]
             next == n[2] + 1
         IN  IF n[2] > Len(input) THEN f
             ELSE CASE unit = "y" ->
                         IF num > 9999 THEN [f EXCEPT !.err = "year"]
                         ELSE AbsoluteScan(input, next, [f EXCEPT !.year = Some(num)])
                    [] unit = "M" ->
                         IF num < 1 \/ num > 12 THEN [f EXCEPT !.err = "month"]
                         ELSE AbsoluteScan(input, next, [f EXCEPT !.month = Some(num)])
                    [] unit = "d" ->
                         IF num < 1 \/ num > 31 THEN [f EXCEPT !.err = "day"]
                         ELSE AbsoluteScan(input, next, [f EXCEPT !.day = Some(num)])
                    [] unit = "w" ->
                         IF num < 1 \/ num > 7 THEN [f EXCEPT !.err = "weekday"]
                         ELSE AbsoluteScan(input, next, [f EXCEPT !.weekday = Some(num)])
                    [] unit = "h" ->
                         IF num > 23 THEN [f EXCEPT !.err = "hour"]
                         ELSE AbsoluteScan(input, next, [f EXCEPT !.hour = Some(num)])
                    [] unit = "m" ->
                         IF num > 59 THEN [f EXCEPT !.err = "minute"]
                         ELSE AbsoluteScan(input, next, [f EXCEPT !.minute = Some(num)])
                    [] unit = "s" ->
                         IF num > 59 THEN [f EXCEPT !.err = "second"]
                         ELSE AbsoluteScan(input, next, [f EXCEPT !.second = Some(num)])
                    [] OTHER -> AbsoluteScan(input, next, f)

(* the weekday step: with a weekday and no day, the date is the next       *)
(* occurrence of the weekday after the local today                         *)
WithDate(f, target) ==
    [f EXCEPT !.day = Some(target.day), !.month = Some(target.month),
              !.year = Some(target.year)]

(* the weekday step that rolls forward only when the weekday has passed:  *)
(* today is kept when it is the requested weekday                          *)
WeekdayResolve_AllowToday(f, now_naive) ==
    IF f.weekday.some /\ ~f.day.some
    THEN LET diff == (f.weekday.v - 1) - num_days_from_monday(now_naive.days)
             days_ahead == IF diff < 0 THEN diff + 7 ELSE diff
         IN  WithDate(f, CivilFromDays(now_naive.days + days_ahead))
    ELSE f

WeekdayResolve(f, now_naive) ==
    IF f.weekday.some /\ ~f.day.some
    THEN LET diff == (f.weekday.v - 1) - num_days_from_monday(now_naive.days)
             days_ahead == IF diff <= 0 THEN diff + 7 ELSE diff
         IN  WithDate(f, CivilFromDays(now_naive.days + days_ahead))
    ELSE f

unwrap_or(opt, dflt) == IF opt.some THEN opt.v ELSE dflt

(* the local date and time parse_absolute_time composes from the fields,   *)
(* today being the local date of now                                       *)
ComposeLocal(f, today) ==
    [year   |-> unwrap_or(f.year, today.year),
     month  |-> unwrap_or(f.month, today.month),
     day    |-> unwrap_or(f.day, today.day),
     hour   |-> unwrap_or(f.hour, 0),
     minute |-> unwrap_or(f.minute, 0),
     second |-> unwrap_or(f.second, 0)]

(* the conversion that adds the offset to the local time instead of        *)
(* subtracting it                                                          *)
LocalToUtc_AddsOffset(c, offset_hours) ==
    IF ~ValidDateTime(c.year, c.month, c.day, c.hour, c.minute, c.second)
    THEN TimeErr("invalid date/time")
    ELSE TimeOk(AddHours(Instant(DaysFromCivil(c.year, c.month, c.day),
                                 c.hour * 3600 + c.minute * 60 + c.second),
                         offset_hours))

(* the composed local date and time c, validated and converted to UTC *)
LocalToUtc(c, offset_hours) ==
    IF ~ValidDateTime(c.year, c.month, c.day, c.hour, c.minute, c.second)
    THEN TimeErr("invalid date/time")
    ELSE TimeOk(AddHours(Instant(DaysFromCivil(c.year, c.month, c.day),
                                 c.hour * 3600 + c.minute * 60 + c.second),
                         0 - offset_hours))

(* the scanned fields resolved against the local now *)
FromFields(scanned, now_naive, offset_hours) ==
    IF scanned.err # "" THEN TimeErr(scanned.err)
    ELSE LocalToUtc(ComposeLocal(WeekdayResolve(scanned, now_naive),
                                 CivilFromDays(now_naive.days)),
                    offset_hours)

parse_absolute_time(input, offset_hours, now_utc) ==
    FromFields(AbsoluteScan(input, 1, NoFields),
               AddHours(now_utc, offset_hours), offset_hours)

(* format_time: the local calendar fields that are printed, to the minute  *)
format_time(dt, offset_hours) ==
    IF ~dt.some THEN [end_of_times |-> TRUE, year |-> 0, month |-> 0, day |-> 0,
                      hour |-> 0, minute |-> 0]
    ELSE LET local == AddHours(dt.v, offset_hours)
             date  == CivilFromDays(local.days)
         IN  [end_of_times |-> FALSE, year |-> date.year, month |-> date.month,
              day |-> date.day, hour |-> local.secs \div 3600,
              minute |-> (local.secs % 3600) \div 60]

----------------------------------------------------------------------------
(* The store and its persistence                                           *)

VARIABLES
    store,     \* the content of the data file tasks.json
    run        \* the invocation that has just ended, or NoRun between runs

vars == <<store, run>>

(* Data::default() *)
EmptyData == [current_session |-> NoName, sessions |-> [n \in {} |-> <<>>]]

(* load_data: the file's content, every session re-sorted *)
load_data(file) ==
    [current_session |-> file.current_session,
     sessions |-> [n \in DOMAIN file.sessions |-> sort_tasks(file.sessions[n])]]

(* save_data: the whole store replaces the file's content *)
save_data(data) ==
    [current_session |-> data.current_session, sessions |-> data.sessions]

(* the name that ignores current_session: always "default" *)
current_session_name_Default(data) == "default"

(* data.current_session.clone().unwrap_or("default") *)
current_session_name(data) ==
    IF data.current_session.some THEN data.current_session.v ELSE "default"

(* sessions.entry(name).or_insert_with(Vec::new) *)
EntryOrInsert(sessions, name) ==
    IF name \in DOMAIN sessions THEN sessions
    ELSE [n \in DOMAIN sessions \cup {name} |->
            IF n = name THEN <<>> ELSE sessions[n]]

SetSession(sessions, name, tasks) ==
    [n \in DOMAIN sessions \cup {name} |->
        IF n = name THEN tasks ELSE sessions[n]]

RemoveSession(sessions, name) ==
    [n \in DOMAIN sessions \ {name} |-> sessions[n]]

(* a removal that drops the last element whatever idx is *)
RemoveAt_Last(tasks, idx) == SubSeq(tasks, 1, Len(tasks) - 1)

(* Vec::remove(idx), idx 0-based *)
RemoveAt(tasks, idx) ==
    SubSeq(tasks, 1, idx) \o SubSeq(tasks, idx + 2, Len(tasks))

----------------------------------------------------------------------------
(* How a run ends                                                          *)

(* the handler ran to the end of main: the store is saved, exit code 0 *)
Done(data, outcome) ==
    [data |-> data, outcome |-> outcome, exit |-> "ok", saved |-> TRUE,
     found |-> NoMatch]

(* `return Ok(())` inside main: exit code 0, save_data is not reached *)
Early(data, outcome) ==
    [data |-> data, outcome |-> outcome, exit |-> "ok", saved |-> FALSE,
     found |-> NoMatch]

(* an Err propagated by `?`: exit code 1, save_data is not reached *)
Fatal(data, outcome) ==
    [data |-> data, outcome |-> outcome, exit |-> "error", saved |-> FALSE,
     found |-> NoMatch]

(* a panic: the process aborts, save_data is not reached *)
Panic(data, outcome) ==
    [data |-> data, outcome |-> outcome, exit |-> "panic", saved |-> FALSE,
     found |-> NoMatch]

(* the run's record of what find_task returned *)
Found(res, m) == [res EXCEPT !.found = m]

----------------------------------------------------------------------------
(* The command handlers.  parts is the argument vector of the subcommand,  *)
(* 1-based here: parts[1] is parts[0] of the source.                       *)

S_in == <<"i", "n">>

S_at == <<"a", "t">>

(* Some(parse ...?): the parsed time, or the error that `?` propagates *)
Parsed(r) == [kind |-> IF r.ok THEN "time" ELSE "error", time |-> Some(r.v)]

(* the [in|at <time>] arguments of add and time *)
TimeArgs(parts, offset_hours, now) ==
    IF Len(parts) > 2
    THEN LET prefix   == parts[2]
             time_str == parts[3]
         IN  IF prefix = S_in
             THEN Parsed(parse_relative_time(time_str, now))
             ELSE IF prefix = S_at
             THEN Parsed(parse_absolute_time(time_str, offset_hours, now))
             ELSE [kind |-> "unknown_prefix", time |-> NoTime]
    ELSE [kind |-> "time", time |-> NoTime]

(* sess.iter().position(|t| t.description == task_desc), 1-based, 0 = None *)
Position(sess, task_desc) ==
    LET hits == {i \in 1..Len(sess) : sess[i].description = task_desc}
    IN  IF hits = {} THEN 0 ELSE CHOOSE i \in hits : \A j \in hits : i <= j

(* the override without `sess[idx].done = false` *)
Override_KeepDone(sess, i, time) ==
    [sess EXCEPT ![i] = [@ EXCEPT !.time = time]]

Override(sess, i, time) ==
    [sess EXCEPT ![i] = [@ EXCEPT !.time = time, !.done = FALSE]]

CmdSs(data) == Done(data, "sessions")

(* a session command that, without a name, makes the session it reports    *)
(* the current one                                                         *)
CmdS_SwitchesWithoutName(data, session) ==
    IF session.some
    THEN Done([current_session |-> Some(session.v),
               sessions |-> EntryOrInsert(data.sessions, session.v)], "switched")
    ELSE Done([current_session |-> Some(current_session_name(data)),
               sessions |-> EntryOrInsert(data.sessions,
                                          current_session_name(data))], "shown")

CmdS(data, session) ==
    IF session.some
    THEN Done([current_session |-> Some(session.v),
               sessions |-> EntryOrInsert(data.sessions, session.v)], "switched")
    ELSE Done(data, "shown")

(* add once the session exists (with) and find_task has returned m: the    *)
(* three arms, then sort_tasks                                             *)
AddMatched(with, cur, task_desc, time, cfg, m) ==
    LET sess == with.sessions[cur]
        pos  == Position(sess, task_desc)
        put(tasks, outcome) ==
            Done([with EXCEPT !.sessions = SetSession(with.sessions, cur,
                                                     sort_tasks(tasks))], outcome)
    IN  Found(
            IF pos # 0
            THEN IF cfg.can_override
                 THEN put(Override(sess, pos, time), "overrode")
                 ELSE Early(with, "already_exists")
            ELSE IF m.idx.some
            THEN IF ~m.info.some THEN Panic(with, "unwrap_none")
                 ELSE IF cfg.strict THEN Early(with, "possible_match")
                 ELSE IF cfg.can_override
                 THEN put(Override(sess, m.idx.v + 1, time), "fuzzy_overrode")
                 ELSE Early(with, "fuzzy_rejected")
            ELSE put(Append(sess, Task(task_desc, time, FALSE)), "added"), m)

(* add that takes an unknown prefix for no time at all and goes on *)
AddTimed_IgnoresPrefix(data, task_desc, cfg, ta, cur) ==
    IF ta.kind = "error" THEN Fatal(data, "time_error")
    ELSE AddMatched([data EXCEPT !.sessions = EntryOrInsert(data.sessions, cur)],
                    cur, task_desc, ta.time, cfg,
                    find_task(EntryOrInsert(data.sessions, cur)[cur], task_desc,
                              cfg.threshold, TRUE))

(* add once the time arguments are read (ta): the session is created on    *)
(* demand and searched in strict mode                                      *)
AddTimed(data, task_desc, cfg, ta, cur) ==
    IF ta.kind = "error" THEN Fatal(data, "time_error")
    ELSE IF ta.kind = "unknown_prefix" THEN Early(data, "unknown_prefix")
    ELSE AddMatched([data EXCEPT !.sessions = EntryOrInsert(data.sessions, cur)],
                    cur, task_desc, ta.time, cfg,
                    find_task(EntryOrInsert(data.sessions, cur)[cur], task_desc,
                              cfg.threshold, TRUE))

CmdA(data, parts, cfg, now) ==
    IF Len(parts) = 0 THEN Early(data, "usage")
    ELSE IF AllDigits(parts[1]) THEN Early(data, "looks_like_index")
    ELSE AddTimed(data, parts[1], cfg, TimeArgs(parts, cfg.offset_hours, now),
                  current_session_name(data))

(* the report that never makes a suggestion *)
NotFound_NoSuggestion(m) ==
    IF m.is_index THEN "index_not_found" ELSE "not_found"

(* the report of a query that did not resolve *)
NotFound(m) ==
    IF m.is_index THEN "index_not_found"
    ELSE IF m.info.some THEN "suggested"
    ELSE "not_found"

(* remove once find_task has returned m *)
RemoveMatched(data, current, m) ==
    Found(IF m.idx.some
          THEN Done([data EXCEPT !.sessions[current] =
                                    RemoveAt(data.sessions[current], m.idx.v)],
                    "removed")
          ELSE Done(data, NotFound(m)), m)

handle_remove(parts, data, current, threshold, strict) ==
    IF Len(parts) = 0 THEN Done(data, "usage")
    ELSE IF current \notin DOMAIN data.sessions THEN Fatal(data, "no_session")
    ELSE RemoveMatched(data, current,
                       find_task(data.sessions[current], parts[1], threshold,
                                 strict))

(* done and undone that flip the flag whatever the target state is *)
DoneMatched_Toggle(data, current, mark_done, m) ==
    Found(IF m.idx.some
          THEN Done([data EXCEPT !.sessions[current][m.idx.v + 1].done = ~@],
                    "marked")
          ELSE Done(data, NotFound(m)), m)

(* done and undone once find_task has returned m *)
DoneMatched(data, current, mark_done, m) ==
    Found(IF m.idx.some
          THEN IF data.sessions[current][m.idx.v + 1].done # mark_done
               THEN Done([data EXCEPT
                            !.sessions[current][m.idx.v + 1].done = mark_done],
                         "marked")
               ELSE Done(data, "already")
          ELSE Done(data, NotFound(m)), m)

handle_done(parts, data, current, threshold, strict, mark_done) ==
    IF Len(parts) = 0 THEN Done(data, "usage")
    ELSE IF current \notin DOMAIN data.sessions THEN Fatal(data, "no_session")
    ELSE DoneMatched(data, current, mark_done,
                     find_task(data.sessions[current], parts[1], threshold,
                               strict))

CmdR(data, parts, cfg) ==
    handle_remove(parts, data, current_session_name(data), cfg.threshold, cfg.strict)

CmdD(data, parts, cfg) ==
    handle_done(parts, data, current_session_name(data), cfg.threshold, cfg.strict, TRUE)

CmdUd(data, parts, cfg) ==
    handle_done(parts, data, current_session_name(data), cfg.threshold, cfg.strict, FALSE)

(* time once find_task has returned m; ta is what the time arguments,      *)
(* read only when the task is found, stand for                             *)
TimeMatched(data, cur, ta, m) ==
    LET sess == data.sessions[cur]
        put(tasks, outcome) ==
            Done([data EXCEPT !.sessions[cur] = sort_tasks(tasks)], outcome)
    IN  Found(
            IF m.idx.some
            THEN IF ta.kind = "error" THEN Fatal(data, "time_error")
                 ELSE IF ta.kind = "unknown_prefix"
                 THEN Early(data, "unknown_prefix")
                 ELSE put([sess EXCEPT ![m.idx.v + 1].time = ta.time], "changed")
            ELSE put(sess, NotFound(m)), m)

(* time with the current session name cur *)
TimeIn(data, parts, cfg, now, cur) ==
    IF cur \notin DOMAIN data.sessions THEN Fatal(data, "no_session")
    ELSE TimeMatched(data, cur, TimeArgs(parts, cfg.offset_hours, now),
                     find_task(data.sessions[cur], parts[1], cfg.threshold,
                               cfg.strict))

CmdT(data, parts, cfg, now) ==
    IF Len(parts) < 1 THEN Early(data, "usage")
    ELSE TimeIn(data, parts, cfg, now, current_session_name(data))

(* str::trim on the whitespace the model uses *)
IsSpace(c) == c \in {" ", "\n"}

RECURSIVE TrimStart(_)
TrimStart(s) ==
    IF Len(s) > 0 /\ IsSpace(s[1]) THEN TrimStart(Rest(s)) ELSE s

RECURSIVE TrimEnd(_)
TrimEnd(s) ==
    IF Len(s) > 0 /\ IsSpace(s[Len(s)]) THEN TrimEnd(SubSeq(s, 1, Len(s) - 1))
    ELSE s

trim(s) == TrimEnd(TrimStart(s))

(* the confirmation test that takes every line for a yes *)
Confirmed_AnyLine(line) == Len(line) >= 0

(* the confirmation test of remove-session on the line read from stdin *)
Confirmed(line) ==
    LET input == to_lowercase(trim(line))
    IN  ~(input # <<"y">> /\ input # <<"y", "e", "s">>)

CmdRs(data, parts, line) ==
    LET session == parts[1]
        tasks   == data.sessions[session]
    IN  IF session = "" THEN Early(data, "empty_name")
        ELSE IF session = "default" THEN Early(data, "refused_default")
        ELSE IF session \notin DOMAIN data.sessions
        THEN Early(data, "session_not_found")
        ELSE IF Len(tasks) > 0 /\ ~Confirmed(line) THEN Early(data, "cancelled")
        ELSE Done([current_session |->
                       IF data.current_session = Some(session)
                       THEN Some("default") ELSE data.current_session,
                   sessions |-> RemoveSession(data.sessions, session)], "deleted")

CmdL(data) ==
    LET cur == current_session_name(data)
    IN  IF cur \notin DOMAIN data.sessions \/ Len(data.sessions[cur]) = 0
        THEN Early(data, "no_tasks")
        ELSE Done(data, "listed")

CmdLl(data) ==
    IF DOMAIN data.sessions = {} THEN Early(data, "no_sessions")
    ELSE Done(data, "listed")

----------------------------------------------------------------------------
(* The inputs of the model                                                 *)

(* the largest number of tasks the store holds *)
MaxTasks == 2

S_ab == <<"a", "b">>

S_Ab == <<"A", "b">>

S_abc == <<"a", "b", "c">>

S_abd == <<"a", "b", "d">>

S_xy == <<"x", "y">>

(* descriptions add can store: two that differ only in case and one      *)
(* similar to both (jaro_winkler("ab", "abc") = 0.911)                     *)
Descriptions == {S_ab, S_Ab, S_abc}

(* the arguments after a description or a query: none, a relative time,    *)
(* an absolute time, an absolute time that is no calendar date in          *)
(* February, an absolute time with an hour out of range, and an unknown    *)
(* prefix                                                                  *)
TimeParts ==
    {<<>>, <<S_in, <<"1", "h">>>>, <<S_at, <<"5", "h">>>>,
     <<S_at, <<"3", "0", "d">>>>, <<S_at, <<"2", "4", "h">>>>,
     <<<<"o", "n">>, <<"1", "h">>>>}

(* argument vectors of add: every description with every time argument,    *)
(* and a description made of digits                                        *)
AddParts == {<<d>> \o tp : d \in Descriptions, tp \in TimeParts} \cup {<<<<"7">>>>}

(* queries given to remove, done, undone and time: indices in and out of   *)
(* range, a negative index, an exact name, a name only similar to "ab"     *)
(* (0.911) and "abc" (0.822), and a name similar to nothing (0.0)          *)
Queries == {<<"0">>, <<"1">>, <<"-", "1">>, S_ab, S_abd, S_xy}

(* argument vectors of time: every query without a time and with a         *)
(* relative time, the other time arguments with the first index, and the   *)
(* first index followed by a single argument                               *)
TimeCmdParts ==
    {<<q>> \o tp : q \in Queries, tp \in {<<>>, <<S_in, <<"1", "h">>>>}}
        \cup {<<<<"0">>>> \o tp : tp \in TimeParts}
        \cup {<<<<"0">>, <<"1", "h">>>>}

SessionNames == {"default", "w"}

(* lines typed at the confirmation prompt of remove-session *)
Lines == {<<"y", "\n">>, <<" ", "Y", "e", "s", "\n">>, <<"n", "\n">>}

(* the clock at the runs: 2024-01-31 22:30:00 UTC *)
Nows == {Instant(DaysFromCivil(2024, 1, 31), 22 * 3600 + 30 * 60)}

(* what load_config returns without a config file *)
DefaultConfig ==
    [offset_hours |-> 3, can_override |-> TRUE, threshold |-> 85,
     strict |-> FALSE]

(* the configurations of the runs: the default one (override allowed,   *)
(* not strict), a strict one that forbids overriding, and one with         *)
(* threshold 0.0 (thresholds are in hundredths)                            *)
Configs ==
    {DefaultConfig,
     [DefaultConfig EXCEPT !.strict = TRUE, !.can_override = FALSE],
     [DefaultConfig EXCEPT !.threshold = 0]}

RECURSIVE SumLen(_, _)
SumLen(sessions, names) ==
    IF names = {} THEN 0
    ELSE LET n == CHOOSE x \in names : TRUE
         IN  Len(sessions[n]) + SumLen(sessions, names \ {n})

TotalTasks(data) == SumLen(data.sessions, DOMAIN data.sessions)

----------------------------------------------------------------------------
(* The runs                                                                *)

(* no process is running: the shell is at its prompt *)
NoRun ==
    [cmd |-> "none", parts |-> <<>>, cfg |-> DefaultConfig,
     now |-> Instant(0, 0), stdin |-> <<>>, outcome |-> "none", exit |-> "ok",
     saved |-> FALSE, found |-> NoMatch, before |-> EmptyData]

Init ==
    /\ store = EmptyData
    /\ run = NoRun

(* One invocation: main loads the store and the configuration, runs the    *)
(* handler of the subcommand and, when the handler came to its end, saves  *)
(* the store.  run keeps the arguments, the configuration, the clock, how  *)
(* the process ended, what find_task returned and the content of the data  *)
(* file before the process started.                                        *)
MainIn(cmd, parts, cfg, now, line, res) ==
    /\ run = NoRun
    /\ TotalTasks(res.data) <= MaxTasks
    /\ store' = IF res.saved THEN save_data(res.data) ELSE store
    /\ run' = [cmd |-> cmd, parts |-> parts, cfg |-> cfg, now |-> now,
               stdin |-> line, outcome |-> res.outcome, exit |-> res.exit, saved |-> res.saved,
               found |-> res.found, before |-> store]

(* an invocation that reads nothing from its standard input *)
Main(cmd, parts, cfg, now, res) == MainIn(cmd, parts, cfg, now, <<>>, res)

Ss ==
    \E cfg \in {DefaultConfig}, now \in Nows :
        Main("ss", <<>>, cfg, now, CmdSs(load_data(store)))

S ==
    \E session \in {NoName} \cup {Some(n) : n \in SessionNames},
       cfg \in {DefaultConfig}, now \in Nows :
        Main("s", IF session.some THEN <<session.v>> ELSE <<>>, cfg, now,
             CmdS(load_data(store), session))

A ==
    \E parts \in AddParts, cfg \in Configs, now \in Nows :
        Main("a", parts, cfg, now, CmdA(load_data(store), parts, cfg, now))

R ==
    \E q \in Queries, cfg \in Configs, now \in Nows :
        Main("r", <<q>>, cfg, now, CmdR(load_data(store), <<q>>, cfg))

Rs ==
    \E n \in SessionNames \cup {"", "zz"}, line \in Lines,
       cfg \in {DefaultConfig}, now \in Nows :
        MainIn("rs", <<n>>, cfg, now, line, CmdRs(load_data(store), <<n>>, line))

D ==
    \E q \in Queries, cfg \in Configs, now \in Nows :
        Main("d", <<q>>, cfg, now, CmdD(load_data(store), <<q>>, cfg))

Ud ==
    \E q \in Queries, cfg \in Configs, now \in Nows :
        Main("ud", <<q>>, cfg, now, CmdUd(load_data(store), <<q>>, cfg))

T ==
    \E parts \in TimeCmdParts, cfg \in Configs, now \in Nows :
        Main("t", parts, cfg, now, CmdT(load_data(store), parts, cfg, now))

L ==
    \E cfg \in {DefaultConfig}, now \in Nows :
        Main("l", <<>>, cfg, now, CmdL(load_data(store)))

Ll ==
    \E cfg \in {DefaultConfig}, now \in Nows :
        Main("ll", <<>>, cfg, now, CmdLl(load_data(store)))

(* the process has exited; the next invocation starts a new one *)
Return ==
    /\ run # NoRun
    /\ run' = NoRun
    /\ UNCHANGED store

Next == Ss \/ S \/ A \/ R \/ Rs \/ D \/ Ud \/ T \/ L \/ Ll \/ Return

Spec == Init /\ [][Next]_vars

----------------------------------------------------------------------------
(* find_task on its own: every task list up to a length, every query       *)

(* the longest task list given to find_task *)
MaxLen == 2

(* descriptions of the task lists: those of the runs, one similar to       *)
(* nothing else, and one that starts with '-'                              *)
FindDescriptions == {S_ab, S_Ab, S_abc, S_abd, S_xy, <<"-", "1">>}

(* the task lists: the data file is read as it is, so a list may repeat a  *)
(* description; tasks without a time are sorted in any order               *)
FindLists ==
    UNION {[1..n -> {Task(d, NoTime, FALSE) : d \in FindDescriptions}] :
              n \in 0..MaxLen}

(* query tokens: digits (also none, and with a leading zero), '-' with and *)
(* without digits, a sign parse::<usize> accepts, a digit before a letter, *)
(* and names in several cases                                              *)
FindQueries ==
    {<<>>, <<"0">>, <<"1">>, <<"2">>, <<"3">>, <<"0", "1">>, <<"-">>,
     <<"-", "0">>, <<"-", "1">>, <<"+", "1">>, <<"1", "a">>,
     S_ab, S_Ab, <<"A", "B">>, <<"A", "B", "C">>, S_abd, S_xy}

FindThresholds == {0, 50, 85, 100}

InitFind ==
    /\ store \in {[current_session |-> NoName,
                   sessions |-> [n \in {"default"} |-> tasks]] :
                     tasks \in FindLists}
    /\ run = NoRun

FindTask ==
    \E query \in FindQueries, threshold \in FindThresholds, strict \in BOOLEAN :
        /\ run = NoRun
        /\ run' = [NoRun EXCEPT
                     !.cmd = "find_task", !.parts = <<query>>,
                     !.cfg = [DefaultConfig EXCEPT !.threshold = threshold,
                                                   !.strict = strict],
                     !.found = find_task(store.sessions["default"], query,
                                         threshold, strict),
                     !.before = store]
        /\ UNCHANGED store

NextFind == FindTask

SpecFind == InitFind /\ [][NextFind]_vars

----------------------------------------------------------------------------
(* parse_absolute_time on its own: every field at and around the ends of   *)
(* its range, on every weekday                                             *)

(* the letters of the fields *)
FieldLetters == {"y", "M", "d", "w", "h", "m", "s"}

(* the numbers given to the fields: the ends of every range and the        *)
(* numbers next to them                                                    *)
FieldNumbers ==
    {<<"0">>, <<"1">>, <<"7">>, <<"8">>, <<"1", "2">>, <<"1", "3">>,
     <<"2", "3">>, <<"2", "4">>, <<"3", "1">>, <<"3", "2">>, <<"5", "9">>,
     <<"6", "0">>, <<"9", "9", "9", "9">>, <<"1", "0", "0", "0", "0">>}

(* time specifications of several fields: a time of day, the same with the *)
(* letters first, a whole date and time, the last day of February and the  *)
(* day after it, an hour given twice, and a weekday with a year            *)
CompoundInputs ==
    {<<"2", "3", "h", "5", "9", "m", "5", "9", "s">>,
     <<"h", "2", "3", "m", "5", "9", "s", "5", "9">>,
     <<"2", "0", "2", "5", "y", "3", "M", "1", "5", "d", "1", "0", "h",
       "3", "0", "m">>,
     <<"2", "M", "2", "9", "d">>, <<"2", "M", "3", "0", "d">>,
     <<"1", "h", "5", "h">>, <<"2", "0", "3", "0", "y", "3", "w">>}

(* time specifications: one field; every weekday; a letter before its      *)
(* number; a weekday with a month, with an hour, and with an explicit day; *)
(* several fields                                                          *)
AbsInputs ==
    {n \o <<l>> : n \in FieldNumbers, l \in FieldLetters}
        \cup {<<d, "w">> : d \in {"1", "2", "3", "4", "5", "6", "7"}}
        \cup {<<"M", "1", "3", "d", "1">>, <<"2", "M", "3", "w">>,
              <<"3", "w", "5", "h">>, <<"3", "w", "9", "d">>}
        \cup CompoundInputs

(* the number of consecutive days the clock takes: every weekday *)
MaxDays == 7

(* the clocks: 22:30:00 UTC on 2024-01-31 and on the days after it *)
AbsNows ==
    {Instant(DaysFromCivil(2024, 1, 31) + k, 22 * 3600 + 30 * 60) :
        k \in 0..(MaxDays - 1)}

(* timezone offsets of the configuration, in hours: east and west of UTC *)
AbsOffsets == {3, 0 - 5}

InitTime ==
    /\ store = EmptyData
    /\ run = NoRun

ParseAbsolute ==
    \E input \in AbsInputs, now \in AbsNows, offset_hours \in AbsOffsets :
        /\ run = NoRun
        /\ run' = [cmd |-> "parse_absolute_time", parts |-> <<input>>,
                   cfg |-> [DefaultConfig EXCEPT !.offset_hours = offset_hours],
                   now |-> now,
                   result |-> parse_absolute_time(input, offset_hours, now)]
        /\ UNCHANGED store

NextTime == ParseAbsolute

SpecTime == InitTime /\ [][NextTime]_vars

----------------------------------------------------------------------------
(* add on its own: descriptions made of digits, of '-' and digits, and of  *)
(* letters                                                                 *)

(* descriptions given to add: a name, digits, '-' before digits, '-'      *)
(* alone, a digit before a letter, and none                                *)
AddDescriptions ==
    {S_ab, <<"7">>, <<"-", "1">>, <<"-">>, <<"1", "a">>, <<>>}

AddOne ==
    \E d \in AddDescriptions, cfg \in Configs, now \in Nows :
        Main("a", <<d>>, cfg, now, CmdA(load_data(store), <<d>>, cfg, now))

NextAdd == AddOne \/ Return

SpecAdd == Init /\ [][NextAdd]_vars

----------------------------------------------------------------------------
(* Vocabulary of the properties                                            *)

(* the session the run worked on, before and after it *)
BeforeCur == current_session_name(run.before)

TasksOf(file, name) ==
    IF name \in DOMAIN file.sessions THEN file.sessions[name] ELSE <<>>

BeforeTasks == TasksOf(run.before, BeforeCur)

AfterTasks == TasksOf(store, BeforeCur)

(* the first argument of the run: the description or the query *)
Arg == run.parts[1]

(* what the run's time arguments stand for *)
NewTime == TimeArgs(run.parts, run.cfg.offset_hours, run.now)

SameLower(a, b) == to_lowercase(a) = to_lowercase(b)

Score(task, query) ==
    jaro_winkler(to_lowercase(task.description), to_lowercase(query))

IsSorted(tasks) ==
    \A i, j \in 1..Len(tasks) :
        i < j =>
            /\ tasks[j].time.some => tasks[i].time.some
            /\ (tasks[i].time.some /\ tasks[j].time.some)
                   => InstantLe(tasks[i].time.v, tasks[j].time.v)

LookupCmd == run.cmd \in {"r", "d", "ud", "t"}

----------------------------------------------------------------------------
(* Properties of the store after any sequence of runs                      *)

(* C1: every session of the saved store is sorted: every task with a time  *)
(* precedes every task without one, and the timed tasks are in             *)
(* non-decreasing order of time.                                           *)
C1_SessionsSorted ==
    \A n \in DOMAIN store.sessions : IsSorted(store.sessions[n])

(* a reschedule has just moved the second task of a session in front of    *)
(* the first, which has no time                                            *)
C1_Witness ==
    /\ run.cmd = "t" /\ run.outcome = "changed" /\ run.saved
    /\ Len(BeforeTasks) = 2 /\ Len(AfterTasks) = 2
    /\ BeforeTasks[1].description # BeforeTasks[2].description
    /\ AfterTasks[1].description = BeforeTasks[2].description
    /\ AfterTasks[1].time.some /\ ~AfterTasks[2].time.some

(* C5: no session of the saved store holds two tasks whose descriptions    *)
(* are equal after lowercasing.                                            *)
C5_NoCaseDuplicates ==
    \A n \in DOMAIN store.sessions :
        \A i, j \in 1..Len(store.sessions[n]) :
            i # j => ~SameLower(store.sessions[n][i].description,
                                store.sessions[n][j].description)

(* add has just run with a description that differs only in case from the  *)
(* description of a task of the current session                            *)
C5_Witness ==
    /\ run.cmd = "a" /\ NewTime.kind = "time"
    /\ \E i \in 1..Len(BeforeTasks) :
          /\ BeforeTasks[i].description # Arg
          /\ SameLower(BeforeTasks[i].description, Arg)

(* C10: current_session is unset or names a session of the saved store.    *)
C10_CurrentSessionExists ==
    store.current_session.some =>
        store.current_session.v \in DOMAIN store.sessions

----------------------------------------------------------------------------
(* Properties of add                                                       *)

(* the description given to add is that of a task of the current session,  *)
(* byte for byte                                                           *)
ExactCollision ==
    /\ run.cmd = "a"
    /\ \E i \in 1..Len(BeforeTasks) : BeforeTasks[i].description = Arg

(* the current session after the run holds the task `old` with the run's   *)
(* time and done = false                                                   *)
Overridden(old) ==
    \E j \in 1..Len(AfterTasks) :
        AfterTasks[j] = Task(old.description, NewTime.time, FALSE)

(* every task of the current session but `old` is in it after the run *)
OthersKept(old) ==
    \A i \in 1..Len(BeforeTasks) :
        BeforeTasks[i] # old =>
            \E j \in 1..Len(AfterTasks) : AfterTasks[j] = BeforeTasks[i]

(* C2: add of a description equal byte for byte to that of a task of the   *)
(* current session never changes the number of tasks; with override        *)
(* disabled the store is unchanged; with override enabled (and time        *)
(* arguments that are accepted) exactly that task gets the new time, or no *)
(* time, and done = false, and every other task is unchanged.              *)
C2_ExactCollision ==
    ExactCollision =>
        /\ Len(AfterTasks) = Len(BeforeTasks)
        /\ ~run.cfg.can_override => store = run.before
        /\ (run.cfg.can_override /\ NewTime.kind = "time") =>
              \A i \in 1..Len(BeforeTasks) :
                  BeforeTasks[i].description = Arg =>
                      /\ Overridden(BeforeTasks[i])
                      /\ OthersKept(BeforeTasks[i])

(* add has just overridden a task that was done, in a session of two       *)
C2_Witness ==
    /\ ExactCollision /\ run.outcome = "overrode" /\ run.saved
    /\ Len(BeforeTasks) = 2
    /\ \E i \in 1..2 :
          /\ BeforeTasks[i].description = Arg
          /\ BeforeTasks[i].done
          /\ BeforeTasks[i].time # NewTime.time

(* the description given to add differs only in case from that of a task   *)
(* of the current session, and the time arguments are accepted             *)
CaseCollision ==
    /\ run.cmd = "a" /\ NewTime.kind = "time"
    /\ ~ExactCollision
    /\ \E i \in 1..Len(BeforeTasks) : SameLower(BeforeTasks[i].description, Arg)

(* C3: add of a description that equals an existing description only when  *)
(* both are lowercased terminates normally and follows the override        *)
(* policy: it overrides that task (override enabled) or leaves the store   *)
(* unchanged (override disabled); the task count is unchanged.             *)
C3_CaseCollision ==
    CaseCollision =>
        /\ run.exit = "ok"
        /\ Len(AfterTasks) = Len(BeforeTasks)
        /\ ~run.cfg.can_override => store = run.before
        /\ run.cfg.can_override =>
              \E i \in 1..Len(BeforeTasks) :
                  /\ SameLower(BeforeTasks[i].description, Arg)
                  /\ Overridden(BeforeTasks[i])

(* the description given to add equals no description of the current       *)
(* session, in any case, but scores above the threshold against one; the   *)
(* time arguments are accepted                                             *)
FuzzyCollision ==
    /\ run.cmd = "a" /\ NewTime.kind = "time" /\ ~AllDigits(Arg)
    /\ \A i \in 1..Len(BeforeTasks) : ~SameLower(BeforeTasks[i].description, Arg)
    /\ \E i \in 1..Len(BeforeTasks) :
          ScoreGt(Score(BeforeTasks[i], Arg), Pct(run.cfg.threshold))

(* C4: add of a description in fuzzy collision with a task never appends a *)
(* task: it overrides a colliding task (override enabled) or leaves the    *)
(* store unchanged (override disabled).                                    *)
C4_FuzzyCollision ==
    FuzzyCollision =>
        /\ Len(AfterTasks) = Len(BeforeTasks)
        /\ ~run.cfg.can_override => store = run.before
        /\ run.cfg.can_override =>
              \E i \in 1..Len(BeforeTasks) :
                  /\ ScoreGt(Score(BeforeTasks[i], Arg), Pct(run.cfg.threshold))
                  /\ Overridden(BeforeTasks[i])

----------------------------------------------------------------------------
(* Properties of find_task                                                 *)

FindCase == run.cmd = "find_task"

FindList == store.sessions["default"]

DigitToken(q) == Len(q) > 0 /\ AllDigits(q)

DashToken(q) == starts_with(q, "-") /\ AllDigits(Rest(q))

(* C6: on a list of length N a token of digits that denotes k resolves to  *)
(* index k if and only if 0 <= k < N, and is an index lookup; '-' followed *)
(* only by digits never resolves and is an index lookup; a token of        *)
(* neither form is no index lookup.                                        *)
C6_IndexLookup ==
    FindCase =>
        /\ DigitToken(Arg) =>
              /\ run.found.is_index
              /\ run.found.idx.some <=> DecValue(Arg) < Len(FindList)
              /\ run.found.idx.some => run.found.idx.v = DecValue(Arg)
        /\ DashToken(Arg) => (run.found.is_index /\ ~run.found.idx.some)
        /\ (~AllDigits(Arg) /\ ~DashToken(Arg)) => ~run.found.is_index

(* find_task has resolved "1" on a list of two *)
C6_Witness ==
    /\ FindCase /\ Arg = <<"1">> /\ Len(FindList) = 2
    /\ run.found = [idx |-> Some(1), info |-> NoInfo, is_index |-> TRUE]

(* the tasks whose description equals the query when both are lowercased *)
EqualIgnoringCase(tasks, query) ==
    {i \in 1..Len(tasks) : SameLower(tasks[i].description, query)}

(* C8: for every task list, threshold and strictness, a name query equal   *)
(* ignoring case to the description of some task resolves to the first     *)
(* such task, never to a merely similar task and never to nothing.         *)
C8_ExactFirst ==
    (FindCase /\ ~IsIndexQuery(Arg) /\ EqualIgnoringCase(FindList, Arg) # {}) =>
        /\ run.found.idx.some
        /\ run.found.idx.v + 1 \in EqualIgnoringCase(FindList, Arg)
        /\ \A i \in EqualIgnoringCase(FindList, Arg) : run.found.idx.v + 1 <= i

(* not strict: the first task is only similar to the query, at or above    *)
(* the threshold, the second equals it ignoring case and is the one found  *)
C8_Witness ==
    /\ FindCase /\ ~run.cfg.strict /\ Len(FindList) = 2
    /\ ~SameLower(FindList[1].description, Arg)
    /\ ScoreGe(Score(FindList[1], Arg), Pct(run.cfg.threshold))
    /\ FindList[2].description # Arg
    /\ SameLower(FindList[2].description, Arg)
    /\ run.found.idx = Some(1)

----------------------------------------------------------------------------
(* Properties of remove, done, undone and time                             *)

(* the query is a name that equals no description of the current session,  *)
(* in any case                                                             *)
NameMiss ==
    /\ LookupCmd /\ BeforeCur \in DOMAIN run.before.sessions
    /\ ~IsIndexQuery(Arg)
    /\ EqualIgnoringCase(BeforeTasks, Arg) = {}

(* the best score of a task of the current session is at or above the     *)
(* threshold                                                               *)
BestAtOrAbove ==
    \E i \in 1..Len(BeforeTasks) :
        ScoreGe(Score(BeforeTasks[i], Arg), Pct(run.cfg.threshold))

BestScoring(i) ==
    \A j \in 1..Len(BeforeTasks) :
        ScoreGe(Score(BeforeTasks[i], Arg), Score(BeforeTasks[j], Arg))

(* what the command does to the task at i (1-based) of the current session *)
Applied(i) ==
    CASE run.cmd = "r"  -> AfterTasks = RemoveAt(BeforeTasks, i - 1)
      [] run.cmd = "d"  -> AfterTasks = [BeforeTasks EXCEPT ![i].done = TRUE]
      [] run.cmd = "ud" -> AfterTasks = [BeforeTasks EXCEPT ![i].done = FALSE]
      [] run.cmd = "t"  ->
            NewTime.kind = "time" =>
                AfterTasks = sort_tasks([BeforeTasks EXCEPT ![i].time = NewTime.time])

(* C7: with a name query that equals no description ignoring case, strict  *)
(* mode never changes the store; non-strict mode, when the best score is   *)
(* at or above the threshold, resolves to the best-scoring task and        *)
(* applies the command to it.                                              *)
C7_StrictNeverNonStrictBest ==
    NameMiss =>
        /\ run.cfg.strict => store = run.before
        /\ (~run.cfg.strict /\ BestAtOrAbove) =>
              /\ run.found.idx.some
              /\ BestScoring(run.found.idx.v + 1)
              /\ Applied(run.found.idx.v + 1)

(* C9: remove, done, undone and time, when the current session name has no *)
(* entry in the store, end with success and leave the store unchanged.     *)
C9_MissingSessionRecoverable ==
    (LookupCmd /\ BeforeCur \notin DOMAIN run.before.sessions) =>
        (run.exit = "ok" /\ store = run.before)

----------------------------------------------------------------------------
(* Properties of remove-session                                            *)

RsCase == run.cmd = "rs"

(* the line typed at the prompt, trimmed and lowercased, is "y" or "yes" *)
SaidYes == to_lowercase(trim(run.stdin)) \in {<<"y">>, <<"y", "e", "s">>}

(* the conditions under which remove-session may delete the session Arg *)
MayDelete ==
    /\ Arg # "default"
    /\ Arg \in DOMAIN run.before.sessions
    /\ (Len(run.before.sessions[Arg]) = 0 \/ SaidYes)

(* the run has deleted a session *)
Deleted == DOMAIN store.sessions # DOMAIN run.before.sessions

(* C11: remove-session deletes a session only when its name is not         *)
(* "default", it exists, and it has no tasks or the confirmation line is   *)
(* "y" or "yes"; in every other case, and always for "default", the store  *)
(* is unchanged.  A deletion removes that session and no other, leaves     *)
(* every other session as it was, and sets current_session to "default"    *)
(* exactly when the deleted session was the current one.                   *)
C11_RemoveSession ==
    RsCase =>
        /\ Deleted => MayDelete
        /\ ~MayDelete => store = run.before
        /\ Arg = "default" => store = run.before
        /\ Deleted =>
              /\ DOMAIN store.sessions = DOMAIN run.before.sessions \ {Arg}
              /\ \A n \in DOMAIN store.sessions :
                    store.sessions[n] = run.before.sessions[n]
              /\ store.current_session =
                    IF run.before.current_session = Some(Arg)
                    THEN Some("default") ELSE run.before.current_session

(* the current session, which holds a task, has just been deleted after    *)
(* " Yes" was typed, while another session with a task was kept            *)
C11_Witness ==
    /\ RsCase /\ Deleted /\ run.stdin = <<" ", "Y", "e", "s", "\n">>
    /\ run.before.current_session = Some(Arg)
    /\ Len(run.before.sessions[Arg]) > 0
    /\ \E n \in DOMAIN store.sessions : Len(store.sessions[n]) > 0

----------------------------------------------------------------------------
(* Properties of every run                                                 *)

(* a run of the program has just ended *)
RunEnded == run # NoRun /\ run.cmd # "find_task"

(* C12: every run that ends with exit code 0 has saved the store, once,    *)
(* after its handler; no-op commands (rejected arguments, not-found,       *)
(* refusals, empty listings) included.                                     *)
C12_SavedOnExitZero ==
    (RunEnded /\ run.exit = "ok") => run.saved

----------------------------------------------------------------------------
(* Properties of the commands that resolve a query                         *)

(* the run resolved its query to a task of the current session; Target is  *)
(* the task's position, 1-based                                            *)
Resolved(cmd) == run.cmd = cmd /\ run.found.idx.some

Target == run.found.idx.v + 1

(* current_session and every session but the current one are as before *)
RestKept ==
    /\ store.current_session = run.before.current_session
    /\ DOMAIN store.sessions = DOMAIN run.before.sessions
    /\ \A n \in DOMAIN store.sessions \ {BeforeCur} :
          store.sessions[n] = run.before.sessions[n]

(* C13: remove that resolves to index i of a session of length N leaves    *)
(* the old sequence without element i: length N - 1, the tasks before i at *)
(* their index, the tasks after i one index lower, every task unchanged;   *)
(* nothing else in the store changes.                                      *)
C13_RemoveDeletesOne ==
    Resolved("r") =>
        /\ Target \in 1..Len(BeforeTasks)
        /\ Len(AfterTasks) = Len(BeforeTasks) - 1
        /\ \A k \in 1..Len(AfterTasks) :
              AfterTasks[k] = IF k < Target THEN BeforeTasks[k]
                              ELSE BeforeTasks[k + 1]
        /\ RestKept

(* `remove 0` has just removed the first of two different tasks: the task  *)
(* that was second is now at index 0                                       *)
C13_Witness ==
    /\ Resolved("r") /\ Arg = <<"0">> /\ Len(BeforeTasks) = 2
    /\ BeforeTasks[1] # BeforeTasks[2]
    /\ AfterTasks = <<BeforeTasks[2]>>

(* the run is done (mark TRUE) or undone (mark FALSE) and resolved *)
DoneCase(mark) == Resolved(IF mark THEN "d" ELSE "ud")

(* the same command applied to the store the run left *)
DoneAgain(mark) == handle_done(run.parts, load_data(store), BeforeCur,
                               run.cfg.threshold, run.cfg.strict, mark)

(* C14: done (undone) that resolves to a task sets its done flag to true   *)
(* (false) and changes nothing else; it reports "already" exactly when the *)
(* flag had that value; the same command applied again reports "already"   *)
(* and leaves the store as the first application left it.                  *)
C14_DoneSetsFlagOnly ==
    \A mark \in BOOLEAN :
        DoneCase(mark) =>
            /\ Target \in 1..Len(BeforeTasks)
            /\ AfterTasks = [BeforeTasks EXCEPT ![Target].done = mark]
            /\ RestKept
            /\ run.outcome = IF BeforeTasks[Target].done = mark
                             THEN "already" ELSE "marked"
            /\ DoneAgain(mark).outcome = "already"
            /\ save_data(DoneAgain(mark).data) = store

(* done has just marked the second of two tasks, by its name, and undone   *)
(* could follow: the task was not done before                              *)
C14_Witness ==
    /\ DoneCase(TRUE) /\ run.outcome = "marked" /\ ~run.found.is_index
    /\ Len(BeforeTasks) = 2 /\ Target = 2
    /\ ~BeforeTasks[2].done /\ AfterTasks[2].done

(* undone has just cleared the flag of a task that was done *)
C14_WitnessUndone ==
    /\ DoneCase(FALSE) /\ run.outcome = "marked"
    /\ BeforeTasks[Target].done /\ ~AfterTasks[Target].done

(* the current session with the time of the resolved task replaced by t,   *)
(* re-sorted                                                               *)
Rescheduled(t) == sort_tasks([BeforeTasks EXCEPT ![Target].time = t])

(* the run was rejected for its time arguments *)
TimeRejected == run.outcome \in {"time_error", "unknown_prefix"}

(* C15: time on a resolved task clears the task's time when no argument    *)
(* follows the query; when at least one argument follows it, the time is   *)
(* never cleared: the task gets the instant parsed from the in/at token,   *)
(* or the command is rejected and the store is unchanged.                  *)
C15_TimeClearsOnlyWithoutArgs ==
    Resolved("t") =>
        /\ Len(run.parts) = 1 => AfterTasks = Rescheduled(NoTime)
        /\ Len(run.parts) > 1 =>
              \/ TimeRejected /\ store = run.before
              \/ /\ NewTime.kind = "time" /\ NewTime.time.some
                 /\ AfterTasks = Rescheduled(NewTime.time)

----------------------------------------------------------------------------
(* Properties of parse_absolute_time                                       *)

ParseCase == run.cmd = "parse_absolute_time"

(* the specification is one field: digits and the field's letter *)
OneField ==
    /\ Len(Arg) >= 2
    /\ AllDigits(SubSeq(Arg, 1, Len(Arg) - 1))
    /\ Arg[Len(Arg)] \in FieldLetters

FieldLetter == Arg[Len(Arg)]

FieldNumber == DecValue(SubSeq(Arg, 1, Len(Arg) - 1))

(* the documented range of each field and the name its range error bears *)
FieldRange(l) ==
    CASE l = "y" -> 1..9999
      [] l = "M" -> 1..12
      [] l = "d" -> 1..31
      [] l = "w" -> 1..7
      [] l = "h" -> 0..23
      [] l = "m" -> 0..59
      [] l = "s" -> 0..59

FieldName(l) ==
    CASE l = "y" -> "year"   [] l = "M" -> "month"  [] l = "d" -> "day"
      [] l = "w" -> "weekday" [] l = "h" -> "hour"  [] l = "m" -> "minute"
      [] l = "s" -> "second"

RangeErrors == {FieldName(l) : l \in FieldLetters}

(* C16: parse_absolute_time fails with the range error of a field exactly  *)
(* when the field's number is outside its range (year 1-9999, month 1-12,  *)
(* day 1-31, weekday 1-7, hour 0-23, minute 0-59, second 0-59), the lower  *)
(* bounds year 0, month 0, day 0 and weekday 0 included.                   *)
C16_FieldRanges ==
    (ParseCase /\ OneField) =>
        IF FieldNumber \in FieldRange(FieldLetter)
        THEN run.result.err \notin RangeErrors
        ELSE ~run.result.ok /\ run.result.err = FieldName(FieldLetter)

(* the fields the specification supplies *)
Supplied == AbsoluteScan(Arg, 1, NoFields)

(* a weekday is requested and no day is given *)
WeekdayCase ==
    /\ ParseCase
    /\ Supplied.err = "" /\ Supplied.weekday.some /\ ~Supplied.day.some

(* the local date (a day number) of an instant *)
LocalDay(t) == AddHours(t, run.cfg.offset_hours).days

(* C17: with a weekday w in 1..7 and no explicit day, whatever the current *)
(* local weekday is, the date parse_absolute_time resolves lies 1 to 7     *)
(* days after today's local date, falls on weekday w, and is 7 days after  *)
(* today when today is weekday w; it is never today.                       *)
C17_WeekdayResolution ==
    WeekdayCase =>
        /\ run.result.ok
        /\ LocalDay(run.result.v) - LocalDay(run.now) \in 1..7
        /\ num_days_from_monday(LocalDay(run.result.v)) = Supplied.weekday.v - 1
        /\ num_days_from_monday(LocalDay(run.now)) = Supplied.weekday.v - 1
              => LocalDay(run.result.v) - LocalDay(run.now) = 7

(* the requested weekday is today's local weekday, which is not the        *)
(* weekday of the UTC date, and the resolved date is a week ahead          *)
C17_Witness ==
    /\ WeekdayCase
    /\ num_days_from_monday(LocalDay(run.now)) = Supplied.weekday.v - 1
    /\ num_days_from_monday(run.now.days) # Supplied.weekday.v - 1
    /\ LocalDay(run.result.v) - LocalDay(run.now) = 7

----------------------------------------------------------------------------
(* Properties of the persistence                                           *)

(* C18: for every store reachable from the empty store, saving it and then *)
(* loading it yields an equal store: the re-sort of load changes neither   *)
(* the order nor the content of any session, and current_session is        *)
(* preserved.                                                              *)
C18_SaveLoadRoundTrip ==
    load_data(save_data(store)) = store

(* a run has just saved a store with a current session of two different    *)
(* tasks that compare equal (neither has a time), and a second session     *)
C18_Witness ==
    /\ RunEnded /\ run.saved /\ store.current_session.some
    /\ Cardinality(DOMAIN store.sessions) = 2
    /\ Len(AfterTasks) = 2
    /\ AfterTasks[1] # AfterTasks[2]
    /\ ~AfterTasks[1].time.some /\ ~AfterTasks[2].time.some

----------------------------------------------------------------------------
(* Properties of the read-only commands                                    *)

(* the run is session without a name, sessions, list or list-all *)
ReadOnlyCase ==
    \/ run.cmd \in {"ss", "l", "ll"}
    \/ (run.cmd = "s" /\ run.parts = <<>>)

(* C19: session without a name, sessions, list and list-all never change   *)
(* the store: the persisted store after the run (current_session and every *)
(* session's task sequence) equals the one persisted before it.            *)
C19_ReadOnlyCommands ==
    ReadOnlyCase => store = run.before

(* session without a name has just run to its end, and saved, on a store   *)
(* that has a current session set and two tasks in it                      *)
C19_Witness ==
    /\ run.cmd = "s" /\ run.parts = <<>> /\ run.saved
    /\ run.before.current_session.some
    /\ Len(BeforeTasks) = 2

----------------------------------------------------------------------------
(* Properties of the not-found reports                                     *)

(* remove, done, undone or time has searched the current session and has   *)
(* not resolved its query                                                  *)
Unresolved ==
    /\ LookupCmd /\ BeforeCur \in DOMAIN run.before.sessions
    /\ ~run.found.idx.some

(* some task of the current session scores above the threshold *)
SomeAbove ==
    \E i \in 1..Len(BeforeTasks) :
        ScoreGt(Score(BeforeTasks[i], Arg), Pct(run.cfg.threshold))

(* C20: when remove, done, undone or time does not resolve its query, it   *)
(* reports "index not found" for an index lookup (digits, or '-' and       *)
(* digits), otherwise the fuzzy suggestion when some description scores    *)
(* above the threshold, otherwise a plain "not found"; the store is        *)
(* unchanged.                                                              *)
C20_NotFoundReports ==
    Unresolved =>
        /\ run.outcome =
              IF AllDigits(Arg) \/ DashToken(Arg) THEN "index_not_found"
              ELSE IF SomeAbove THEN "suggested"
              ELSE "not_found"
        /\ store = run.before

(* strict mode: time has just reported a suggestion for a name that scores *)
(* above the threshold against one of two tasks                            *)
C20_Witness ==
    /\ Unresolved /\ run.cmd = "t" /\ run.cfg.strict
    /\ run.outcome = "suggested" /\ run.saved
    /\ Len(BeforeTasks) = 2

----------------------------------------------------------------------------
(* Properties of find_by_name                                              *)

(* find_task took the name path and no description equals the query        *)
(* ignoring case                                                           *)
NoEqualCase ==
    /\ FindCase /\ ~IsIndexQuery(Arg)
    /\ EqualIgnoringCase(FindList, Arg) = {}

(* the task at i qualifies: above the threshold in strict mode, at or      *)
(* above it in non-strict mode                                             *)
Qualifies(i) ==
    IF run.cfg.strict
    THEN ScoreGt(Score(FindList[i], Arg), Pct(run.cfg.threshold))
    ELSE ScoreGe(Score(FindList[i], Arg), Pct(run.cfg.threshold))

Qualifying == {i \in 1..Len(FindList) : Qualifies(i)}

(* i has the highest score of the qualifying tasks and the lowest index    *)
(* of those with that score                                                *)
Selected(i) ==
    /\ i \in Qualifying
    /\ \A j \in Qualifying :
          \/ ScoreGt(Score(FindList[i], Arg), Score(FindList[j], Arg))
          \/ (ScoreGe(Score(FindList[i], Arg), Score(FindList[j], Arg)) /\ i <= j)

(* C21: when no description equals the query ignoring case, find_by_name   *)
(* selects the qualifying candidate with the highest score, the lowest     *)
(* index among equal scores; strict mode (qualifying: above the threshold) *)
(* reports it as a suggestion, non-strict mode (qualifying: at or above    *)
(* the threshold) resolves to it; with no qualifying candidate nothing is  *)
(* resolved or suggested.                                                  *)
C21_BestCandidate ==
    NoEqualCase =>
        IF Qualifying = {}
        THEN ~run.found.idx.some /\ ~run.found.info.some
        ELSE \E i \in Qualifying :
                /\ Selected(i)
                /\ run.found.info =
                      Info(FindList[i].description, Score(FindList[i], Arg))
                /\ run.found.idx = IF run.cfg.strict THEN None ELSE Some(i - 1)

----------------------------------------------------------------------------
(* The composed local date and time                                        *)

(* the local date of now *)
Today == CivilFromDays(LocalDay(run.now))

(* every supplied field is in its documented range *)
AllInRange ==
    /\ Supplied.err = ""
    /\ Supplied.year.some => Supplied.year.v \in FieldRange("y")

(* the local date and time the specification stands for: the supplied      *)
(* fields, 0 for an hour, minute or second that is not supplied, and       *)
(* today's for a year, month or day that is not supplied                   *)
Meant ==
    [year   |-> IF Supplied.year.some THEN Supplied.year.v ELSE Today.year,
     month  |-> IF Supplied.month.some THEN Supplied.month.v ELSE Today.month,
     day    |-> IF Supplied.day.some THEN Supplied.day.v ELSE Today.day,
     hour   |-> IF Supplied.hour.some THEN Supplied.hour.v ELSE 0,
     minute |-> IF Supplied.minute.some THEN Supplied.minute.v ELSE 0,
     second |-> IF Supplied.second.some THEN Supplied.second.v ELSE 0]

RealDate ==
    ValidDateTime(Meant.year, Meant.month, Meant.day,
                  Meant.hour, Meant.minute, Meant.second)

(* the instant returned is the local date and time c less the offset, and  *)
(* format_time with the same offset shows c to the minute                  *)
Yields(c) ==
    /\ run.result.ok
    /\ AddHours(run.result.v, run.cfg.offset_hours)
          = Instant(DaysFromCivil(c.year, c.month, c.day),
                    c.hour * 3600 + c.minute * 60 + c.second)
    /\ format_time(Some(run.result.v), run.cfg.offset_hours)
          = [end_of_times |-> FALSE, year |-> c.year, month |-> c.month,
             day |-> c.day, hour |-> c.hour, minute |-> c.minute]

(* C22 as stated: for an absolute specification with all fields in range   *)
(* that composes a real calendar date, the instant returned equals the     *)
(* composed local date-time minus the offset, unsupplied hour, minute and  *)
(* second being 0 and unsupplied year, month and day those of now +        *)
(* offset; format_time with the same offset displays the composed local    *)
(* year-month-day hour:minute.                                             *)
C22_ComposedMinusOffset_AsStated ==
    (ParseCase /\ AllInRange /\ RealDate) => Yields(Meant)

(* C22, amended: the same, for a specification that has no weekday or has  *)
(* an explicit day; a weekday without a day sets the date to the next      *)
(* occurrence of the weekday instead of today's.                           *)
C22_ComposedMinusOffset ==
    (ParseCase /\ AllInRange /\ RealDate /\ ~WeekdayCase) => Yields(Meant)

(* a date-only specification east of UTC, when the local month is already *)
(* the month after the UTC month: the month is the local one, and midnight *)
(* local is 21:00 UTC of the day before                                    *)
C22_Witness ==
    /\ ParseCase /\ AllInRange /\ RealDate /\ ~WeekdayCase
    /\ Supplied.day.some /\ ~Supplied.month.some /\ ~Supplied.hour.some
    /\ run.cfg.offset_hours = 3
    /\ Today.month # CivilFromDays(run.now.days).month
    /\ run.result.ok /\ run.result.v.secs = 21 * 3600
    /\ CivilFromDays(run.result.v.days + 1) =
          [Today EXCEPT !.day = Supplied.day.v]

----------------------------------------------------------------------------
(* The supplied fields in the composed date and time                       *)

(* the positions of the letter l in the specification *)
Places(l) == {i \in 1..Len(Arg) : Arg[i] = l}

(* the last position of the letter l *)
LastPlace(l) == CHOOSE i \in Places(l) : \A j \in Places(l) : j <= i

(* where the digits right before position i begin *)
DigitsFrom(i) ==
    CHOOSE k \in 1..i :
        /\ \A j \in k..(i - 1) : is_ascii_digit(Arg[j])
        /\ k > 1 => ~is_ascii_digit(Arg[k - 1])

(* the number the last occurrence of the letter l bears *)
NumberOf(l) == DecValue(SubSeq(Arg, DigitsFrom(LastPlace(l)), LastPlace(l) - 1))

(* the local date and time of the instant returned *)
Composed ==
    LET local == AddHours(run.result.v, run.cfg.offset_hours)
        date  == CivilFromDays(local.days)
    IN  [y |-> date.year, M |-> date.month, d |-> date.day,
         h |-> local.secs \div 3600, m |-> (local.secs % 3600) \div 60,
         s |-> local.secs % 60]

(* the field l is supplied, in range, and kept by the composed date-time *)
Kept(l) ==
    (Places(l) # {} /\ NumberOf(l) \in FieldRange(l))
        => Composed[l] = NumberOf(l)

(* C26: every field an absolute specification supplies explicitly and in   *)
(* range (year, month, day, hour, minute, second; the last occurrence when *)
(* a unit is repeated) is the value of that field in the composed local    *)
(* date-time, also with a weekday: a weekday without a day never replaces  *)
(* an explicitly supplied year or month.                                   *)
C26_SuppliedFieldsKept ==
    (ParseCase /\ run.result.ok) =>
        \A l \in {"y", "M", "d", "h", "m", "s"} : Kept(l)

----------------------------------------------------------------------------
(* Time arguments that are not accepted                                    *)

(* the prefix and the time specification of the run, when it has both *)
HasTimeArgs == Len(run.parts) > 2

UnknownPrefix == HasTimeArgs /\ run.parts[2] \notin {S_in, S_at}

(* the fields of the absolute specification of the run *)
AtFields == AbsoluteScan(run.parts[3], 1, NoFields)

OutOfRangeField == HasTimeArgs /\ run.parts[2] = S_at /\ AtFields.err # ""

NotACalendarDate ==
    /\ HasTimeArgs /\ run.parts[2] = S_at /\ AtFields.err = ""
    /\ ~parse_absolute_time(run.parts[3], run.cfg.offset_hours, run.now).ok

NotAccepted == UnknownPrefix \/ OutOfRangeField \/ NotACalendarDate

(* C23: add and time leave the persisted store unchanged whenever their    *)
(* time arguments are not accepted (an unknown prefix, an out-of-range     *)
(* absolute field, or an absolute specification that is not a real         *)
(* calendar date): no task is added, overridden or rescheduled and no      *)
(* session is created.                                                     *)
C23_RejectedTimeKeepsStore ==
    (run.cmd \in {"a", "t"} /\ NotAccepted) => store = run.before

(* add of a new description with an hour out of range, when the current    *)
(* session does not exist: the session is not created                      *)
C23_Witness ==
    /\ run.cmd = "a" /\ OutOfRangeField
    /\ BeforeCur \notin DOMAIN run.before.sessions
    /\ BeforeCur \notin DOMAIN store.sessions
    /\ run.exit # "ok"

(* time on a task that is found, with a date that is no calendar date *)
C23_WitnessTime ==
    /\ run.cmd = "t" /\ NotACalendarDate /\ run.found.idx.some
    /\ BeforeTasks # <<>> /\ store = run.before

----------------------------------------------------------------------------
(* The frame of the task commands                                          *)

TaskCommands == {"a", "r", "d", "ud", "t"}

(* the session the data file named as current before the run *)
NamedCurrent ==
    IF run.before.current_session.some THEN run.before.current_session.v
    ELSE "default"

(* the sessions other than the current one, before and after the run *)
OtherBefore == DOMAIN run.before.sessions \ {NamedCurrent}

OtherAfter == DOMAIN store.sessions \ {NamedCurrent}

(* C25: add, remove, done, undone and time only change the session named   *)
(* by current_session ("default" when unset): every other session's task   *)
(* sequence and the value of current_session are what they were before,    *)
(* and no session other than the current one is created or deleted.        *)
C25_OnlyCurrentSessionChanges ==
    run.cmd \in TaskCommands =>
        /\ store.current_session = run.before.current_session
        /\ OtherAfter = OtherBefore
        /\ \A n \in OtherBefore : store.sessions[n] = run.before.sessions[n]

(* a task command changed the current session "w" while the session       *)
(* "default" holds a task                                                  *)
C25_Witness ==
    /\ run.cmd \in TaskCommands
    /\ NamedCurrent = "w" /\ run.before.current_session.some
    /\ "default" \in OtherBefore /\ run.before.sessions["default"] # <<>>
    /\ store.sessions["w"] # run.before.sessions["w"]

----------------------------------------------------------------------------
(* Descriptions that add accepts                                           *)

(* add stored the description of the run: as a new task or over a task     *)
Accepted == run.cmd = "a" /\ run.outcome \in {"added", "overrode", "fuzzy_overrode"}

(* m, returned by find_task, is a name lookup that resolves to a task of   *)
(* description d                                                           *)
Addresses(m, tasks, d) ==
    /\ ~m.is_index
    /\ m.idx.some
    /\ m.idx.v + 1 \in 1..Len(tasks)
    /\ tasks[m.idx.v + 1].description = d

(* C24: every task add accepts can afterwards be addressed by its own      *)
(* description d: find_task with query d on the session takes the name     *)
(* path (is-index = false) and, in both strictness modes and with any      *)
(* threshold in [0.0, 1.0], resolves to a task whose description is d;     *)
(* add never accepts a description find_task dispatches as an index.       *)
C24_AcceptedIsAddressable ==
    Accepted =>
        \A threshold \in FindThresholds, strict \in BOOLEAN :
            Addresses(find_task(AfterTasks, Arg, threshold, strict),
                      AfterTasks, Arg)

====
